---- MODULE Spec2Model ----
(***************************************************************************)
(* Model of the in-memory LRU cache of httpcache (lru.go): an eviction     *)
(* store bounded by total body size, a stale overlay (key -> time of       *)
(* invalidation) and the operations Header, Store, Retrieve, Invalidate    *)
(* and Freshen composed of them.                                           *)
(*                                                                         *)
(* In Spec each method is one action that runs the whole call and leaves   *)
(* its arguments and outcome in last; Return hands the outcome to the      *)
(* caller before the next call.  A call that panics leaves the cache as    *)
(* the panic found it, and the caller (an HTTP handler) recovers.  The     *)
(* eviction store (hashicorp/golang-lru with sizes), Resource, Clock and   *)
(* headersEqual live outside lru.go and are modelled from their contract.  *)
(*                                                                         *)
(* SpecOverlay runs the same calls on a cache whose overlay map may have   *)
(* been allocated; SpecConc runs two callers concurrently, one step per    *)
(* call of the eviction store and per access of the overlay map.           *)
(***************************************************************************)
EXTENDS Integers, Sequences, FiniteSets, TLC

\* ------------------------------------------------------------------ bounds
MaxBody == 1        \* longest body a resource delivers, in bytes
MaxCap  == 1        \* largest sizeBytes handed to NewLRUCache

Keys  == {"/a", "/b"}
Bytes == {"x"}
Codes == {200, 304}
Times == {1, 2}      \* clock readings and Date header values

\* ------------------------------------------------------- values and inputs
RECURSIVE SeqsUpTo(_, _)
SeqsUpTo(S, n) ==
    IF n = 0 THEN {<<>>}
    ELSE LET shorter == SeqsUpTo(S, n - 1)
         IN  shorter \cup {Append(s, x) : s \in {t \in shorter : Len(t) = n - 1}, x \in S}

Bodies   == SeqsUpTo(Bytes, MaxBody)
\* the variadic key lists: one key or more, no key twice
KeyLists == {<<k>> : k \in Keys} \cup {p \in Keys \X Keys : p[1] # p[2]}

\* http.Header restricted to the two names the cache's behaviour depends on.
\* A header set is a map from the names present to their value; the value of
\* Content-Length is the integer its decimal text denotes, the value of Date
\* the clock reading its text denotes.  Date is always sent; Content-Length
\* may be missing, and when sent is a non-negative integer that may differ
\* from what the body delivers.
HeaderSets ==
    {[n \in {"Date"} |-> d] : d \in Times}
    \cup {[n \in {"Date", "Content-Length"} |-> IF n = "Date" THEN d ELSE l]
          : d \in Times, l \in 0..(MaxBody + 1)}

\* A Resource handed to Store or Freshen: status, header set, and the reader
\* behind it (the bytes it will deliver; broken = the read fails with an I/O
\* error before delivering anything).
Resources ==
    [statusCode : Codes, header : HeaderSets, body : Bodies, broken : {FALSE}]
    \cup [statusCode : Codes, header : HeaderSets, body : {<<>>}, broken : {TRUE}]

\* errors
Nil                == "nil"
ErrNotFoundInCache == "ErrNotFoundInCache"
EOF                == "EOF"
ErrIO              == "ErrIO"

VARIABLES cache,   \* c.cache : the eviction store
          stale,   \* c.stale : the stale overlay (a Go map, possibly nil)
          gone,    \* history: keys the eviction store dropped, not stored since
          last,    \* the call that just ended: its arguments and its outcome
                   \* (panic = it ended in a run-time panic the caller recovered)
          proc,    \* concurrent callers: where each is in its call, its locals
          marked   \* history: keys whose entry was resident, dated at or before
                   \* T, when an Invalidate of the key completed at T
vars == <<cache, stale, gone, last, proc, marked>>

\* the callers of SpecConc; Spec and SpecOverlay run one call at a time
Procs == {"p", "q"}
Idle  == [pc |-> "idle"]
callerVars == <<proc, marked>>
NoCallers ==
    /\ proc = [p \in Procs |-> Idle]
    /\ marked = {}

\* ------------------------------------------------------------ CacheObj
CacheObj(body, headers, code) == [body |-> body, headers |-> headers, code |-> code]

SizeNoBody(c) == 0
Size(c) == Len(c.body)

\* ------------------------------------------------- Go map (nil or allocated)
EmptyMap == [k \in {} |-> 0]
NilGoMap == [alloc |-> FALSE, m |-> EmptyMap]

MapHas(mp, key) == key \in DOMAIN mp.m
MapDelete(mp, key) == [mp EXCEPT !.m = [k \in (DOMAIN mp.m) \ {key} |-> mp.m[k]]]
\* assignment to an entry of a nil map panics
MapAssignPanics(mp) == ~mp.alloc
MapAssign(mp, key, v) ==
    [mp EXCEPT !.m = [k \in (DOMAIN mp.m) \cup {key} |-> IF k = key THEN v ELSE mp.m[k]]]

\* ------------------------------------------------------ the eviction store
\* ll is the recency list, most recently used entry first.
NewLargeWithEvict(sizeBytes) == [size |-> sizeBytes, ll |-> <<>>]

LruKeys(c) == {c.ll[i].key : i \in 1..Len(c.ll)}
LruIndex(c, key) ==
    IF key \in LruKeys(c) THEN CHOOSE i \in 1..Len(c.ll) : c.ll[i].key = key ELSE 0
LruValue(c, key) == c.ll[LruIndex(c, key)].value   \* a look at the entry that moves nothing

RemoveAt(s, i) == SubSeq(s, 1, i - 1) \o SubSeq(s, i + 1, Len(s))

RECURSIVE SumSizes(_)
SumSizes(ll) == IF ll = <<>> THEN 0 ELSE Head(ll).size + SumSizes(Tail(ll))

RECURSIVE RemoveOldest(_, _)
RemoveOldest(ll, cap) ==
    IF ll # <<>> /\ SumSizes(ll) > cap
    THEN RemoveOldest(SubSeq(ll, 1, Len(ll) - 1), cap)
    ELSE ll

Get(c, key) ==
    LET i == LruIndex(c, key)
    IN  IF i = 0
        THEN [ok |-> FALSE, cache |-> c]
        ELSE [ok |-> TRUE, val |-> c.ll[i].value,
              cache |-> [c EXCEPT !.ll = <<c.ll[i]>> \o RemoveAt(c.ll, i)]]

AddSize(c, key, val, size) ==
    LET i   == LruIndex(c, key)
        ent == [key |-> key, value |-> val, size |-> size]
        ll1 == IF i = 0 THEN <<ent>> \o c.ll ELSE <<ent>> \o RemoveAt(c.ll, i)
    IN  [c EXCEPT !.ll = RemoveOldest(ll1, c.size)]

\* ------------------------------------------------------------- Resource
HeaderGet(h, name) == IF name \in DOMAIN h THEN [present |-> TRUE, v |-> h[name]]
                      ELSE [present |-> FALSE, v |-> 0]

\* strconv.ParseInt of a header text: fails on the empty text of an absent header
ParseInt(g) == [ok |-> g.present, v |-> g.v]

\* Resource.Read(p) with len(p) = n on the reader of NewResourceBytes
\* (bytes.Reader): at the end of the data it returns 0, EOF; otherwise it
\* copies what fits and returns no error.
Read(res, n) ==
    IF res.broken THEN [n |-> 0, err |-> ErrIO, bytes |-> <<>>]
    ELSE IF Len(res.body) = 0 THEN [n |-> 0, err |-> EOF, bytes |-> <<>>]
    ELSE LET m == IF n < Len(res.body) THEN n ELSE Len(res.body)
         IN  [n |-> m, err |-> Nil, bytes |-> SubSeq(res.body, 1, m)]

ReadAll(res) ==
    IF res.broken THEN [bytes |-> <<>>, err |-> ErrIO]
    ELSE [bytes |-> res.body, err |-> Nil]

NewResourceBytes(code, body, headers) ==
    [statusCode |-> code, header |-> headers, body |-> body, stale |-> FALSE]

\* Resource.DateAfter(d): false without a Date header
DateAfter(res, d) ==
    LET g == HeaderGet(res.header, "Date") IN g.present /\ g.v > d

MarkStale(res) == [res EXCEPT !.stale = TRUE]

headersEqual(h1, h2) ==
    /\ DOMAIN h1 = DOMAIN h2
    /\ \A n \in DOMAIN h1 : h1[n] = h2[n]

\* --------------------------------------------------------------- helpers
Range(s) == {s[i] : i \in 1..Len(s)}

\* ------------------------------------------------------------------ Init
NewLRUCache(sizeBytes) ==
    /\ cache = NewLargeWithEvict(sizeBytes)
    /\ stale = NilGoMap

None == [op |-> "none"]

Init ==
    /\ \E sizeBytes \in 1..MaxCap : NewLRUCache(sizeBytes)
    /\ gone = {}
    /\ last = None
    /\ NoCallers

\* ---------------------------------------------------------------- Header
\* The store only ever holds CacheObj values, so the type assertions of
\* lines 48-51, 98-101 and 120-123 succeed.
HeaderOf(c, key) ==
    LET g == Get(c, key)
    IN  IF ~g.ok THEN [err |-> ErrNotFoundInCache, cache |-> g.cache]
        ELSE [err |-> Nil, cache |-> g.cache,
              h |-> [Header |-> g.val.headers, StatusCode |-> g.val.code]]

HeaderConsultingOverlay(key) ==
    LET r == HeaderOf(cache, key)
        miss == r.err # Nil \/ MapHas(stale, key)
    IN  /\ last = None
        /\ cache' = r.cache
        /\ last' = IF miss
                   THEN [op |-> "Header", key |-> key, err |-> ErrNotFoundInCache]
                   ELSE [op |-> "Header", key |-> key, err |-> Nil, h |-> r.h]
        /\ UNCHANGED <<stale, gone>>
        /\ UNCHANGED callerVars

Header(key) ==
    LET r == HeaderOf(cache, key)
    IN  /\ last = None
        /\ cache' = r.cache
        /\ last' = IF r.err = Nil
                   THEN [op |-> "Header", key |-> key, err |-> Nil, h |-> r.h]
                   ELSE [op |-> "Header", key |-> key, err |-> r.err]
        /\ UNCHANGED <<stale, gone>>
        /\ UNCHANGED callerVars

\* ----------------------------------------------------------------- Store
\* lines 58-71: read the body.  ret = Store returns here with err (or panics)
StoreRead(res) ==
    LET cl == ParseInt(HeaderGet(res.header, "Content-Length"))
    IN  IF cl.ok
        THEN IF cl.v < 0
             THEN \* make([]byte, len) with a negative len
                  [ret |-> TRUE, panic |-> TRUE, err |-> Nil, bytes |-> <<>>]
             ELSE LET r == Read(res, cl.v)
                  IN  IF r.err # Nil
                      THEN [ret |-> TRUE, panic |-> FALSE, err |-> r.err, bytes |-> <<>>]
                      ELSE IF r.n # cl.v
                      THEN \* line 66 returns the err that line 62 found to be nil
                           [ret |-> TRUE, panic |-> FALSE, err |-> r.err, bytes |-> <<>>]
                      ELSE [ret |-> FALSE, panic |-> FALSE, err |-> Nil, bytes |-> r.bytes]
        ELSE LET r == ReadAll(res)
             IN  IF r.err # Nil
                 THEN [ret |-> TRUE, panic |-> FALSE, err |-> r.err, bytes |-> <<>>]
                 ELSE [ret |-> FALSE, panic |-> FALSE, err |-> Nil, bytes |-> r.bytes]

\* lines 79-83: the loop over the keys
RECURSIVE StoreKeys(_, _, _, _)
StoreKeys(c, st, val, keys) ==
    IF keys = <<>> THEN [cache |-> c, stale |-> st]
    ELSE StoreKeys(AddSize(c, Head(keys), val, Size(val)),
                   MapDelete(st, Head(keys)), val, Tail(keys))

StoreOf(c, st, res, keys) ==
    LET rd == StoreRead(res)
    IN  IF rd.ret
        THEN [cache |-> c, stale |-> st, err |-> rd.err, panic |-> rd.panic]
        ELSE LET val == CacheObj(rd.bytes, res.header, res.statusCode)
                 r   == StoreKeys(c, st, val, keys)
             IN  [cache |-> r.cache, stale |-> r.stale, err |-> Nil, panic |-> FALSE]

\* keys the eviction store dropped during a call that inserted under keys
Evicted(c, c2, keys) == (LruKeys(c) \cup Range(keys)) \ LruKeys(c2)

Store(res, keys) ==
    LET r == StoreOf(cache, stale, res, keys)
        inserted == ~r.panic /\ r.err = Nil /\ ~StoreRead(res).ret
        ev == IF inserted THEN Evicted(cache, r.cache, keys) ELSE {}
    IN  /\ last = None
        /\ cache' = r.cache
        /\ stale' = r.stale
        /\ gone' = IF inserted THEN (gone \ Range(keys)) \cup ev ELSE gone
        /\ last' = [op |-> "Store", res |-> res, keys |-> keys, err |-> r.err,
                    panic |-> r.panic, evicted |-> ev, reads |-> 1]
        /\ UNCHANGED callerVars

\* -------------------------------------------------------------- Retrieve
RetrieveOfDateNotBefore(c, st, key) ==
    LET g == Get(c, key)
    IN  IF ~g.ok THEN [err |-> ErrNotFoundInCache, cache |-> g.cache]
        ELSE LET res == NewResourceBytes(g.val.code, g.val.body, g.val.headers)
             IN  [err |-> Nil, cache |-> g.cache,
                  res |-> IF MapHas(st, key) /\ res.header["Date"] < st.m[key]
                          THEN MarkStale(res) ELSE res]

RetrieveOf(c, st, key) ==
    LET g == Get(c, key)
    IN  IF ~g.ok THEN [err |-> ErrNotFoundInCache, cache |-> g.cache]
        ELSE LET res == NewResourceBytes(g.val.code, g.val.body, g.val.headers)
             IN  [err |-> Nil, cache |-> g.cache,
                  res |-> IF MapHas(st, key) /\ ~DateAfter(res, st.m[key])
                          THEN MarkStale(res) ELSE res]

Retrieve(key) ==
    LET r == RetrieveOf(cache, stale, key)
    IN  /\ last = None
        /\ cache' = r.cache
        /\ last' = IF r.err = Nil
                   THEN [op |-> "Retrieve", key |-> key, err |-> Nil, res |-> r.res]
                   ELSE [op |-> "Retrieve", key |-> key, err |-> r.err]
        /\ UNCHANGED <<stale, gone>>
        /\ UNCHANGED callerVars

\* ---------------------------------------------------------- updateHeader
updateHeaderDropBody(c, key, headers, code) ==
    LET g == Get(c, key)
    IN  IF ~g.ok THEN [err |-> ErrNotFoundInCache, cache |-> g.cache]
        ELSE LET val == CacheObj(<<>>, headers, code)
             IN  [err |-> Nil, cache |-> AddSize(g.cache, key, val, Size(val))]

updateHeader(c, key, headers, code) ==
    LET g == Get(c, key)
    IN  IF ~g.ok THEN [err |-> ErrNotFoundInCache, cache |-> g.cache]
        ELSE LET val == [g.val EXCEPT !.headers = headers, !.code = code]
             IN  [err |-> Nil, cache |-> AddSize(g.cache, key, val, Size(val))]

\* ------------------------------------------------------------ Invalidate
\* Clock is the reading Clock() returns during the call.
RECURSIVE InvalidateTouching(_, _, _, _)
InvalidateTouching(c, st, keys, Clock) ==
    IF keys = <<>> THEN [cache |-> c, stale |-> st, panic |-> FALSE]
    ELSE IF MapAssignPanics(st) THEN [cache |-> Get(c, Head(keys)).cache, stale |-> st, panic |-> TRUE]
    ELSE InvalidateTouching(Get(c, Head(keys)).cache, MapAssign(st, Head(keys), Clock), Tail(keys), Clock)

RECURSIVE InvalidateOfRemoving(_, _, _, _)
InvalidateOfRemoving(c, st, keys, Clock) ==
    IF keys = <<>> THEN [cache |-> c, stale |-> st, panic |-> FALSE]
    ELSE IF MapAssignPanics(st) THEN [cache |-> c, stale |-> st, panic |-> TRUE]
    ELSE LET i == LruIndex(c, Head(keys))
             c2 == IF i = 0 THEN c ELSE [c EXCEPT !.ll = RemoveAt(c.ll, i)]
         IN  InvalidateOfRemoving(c2, MapAssign(st, Head(keys), Clock), Tail(keys), Clock)

\* lines 132-134; the store is passed through untouched
RECURSIVE InvalidateOf(_, _, _, _)
InvalidateOf(c, st, keys, Clock) ==
    IF keys = <<>> THEN [cache |-> c, stale |-> st, panic |-> FALSE]
    ELSE IF MapAssignPanics(st) THEN [cache |-> c, stale |-> st, panic |-> TRUE]
    ELSE InvalidateOf(c, MapAssign(st, Head(keys), Clock), Tail(keys), Clock)

Invalidate(keys, Clock) ==
    LET r == InvalidateOf(cache, stale, keys, Clock)
    IN  /\ last = None
        /\ cache' = r.cache
        /\ stale' = r.stale
        /\ last' = [op |-> "Invalidate", keys |-> keys, panic |-> r.panic, at |-> Clock]
        /\ UNCHANGED gone
        /\ UNCHANGED callerVars

\* --------------------------------------------------------------- Freshen
\* Freshen reads the candidate's status and header set only.
Candidates == [statusCode : Codes, header : HeaderSets]

Step(s, r) == [r EXCEPT !.steps = <<s>> \o @]

RECURSIVE FreshenFailingOnAbsent(_, _, _, _, _)
FreshenFailingOnAbsent(c, st, res, keys, Clock) ==
    IF keys = <<>>
    THEN [cache |-> c, stale |-> st, err |-> Nil, panic |-> FALSE, steps |-> <<>>]
    ELSE LET key == Head(keys)
             hd  == HeaderOf(c, key)
         IN  IF hd.err # Nil
             THEN [cache |-> hd.cache, stale |-> st, err |-> hd.err,
                   panic |-> FALSE, steps |-> <<"absent">>]
             ELSE IF hd.h.StatusCode = res.statusCode /\ headersEqual(hd.h.Header, res.header)
             THEN LET u == updateHeader(hd.cache, key, res.header, hd.h.StatusCode)
                  IN  IF u.err # Nil
                      THEN [cache |-> u.cache, stale |-> st, err |-> u.err,
                            panic |-> FALSE, steps |-> <<"match">>]
                      ELSE Step("match", FreshenFailingOnAbsent(u.cache, st, res, Tail(keys), Clock))
             ELSE LET iv == InvalidateOf(hd.cache, st, <<key>>, Clock)
                  IN  IF iv.panic
                      THEN [cache |-> iv.cache, stale |-> iv.stale, err |-> Nil,
                            panic |-> TRUE, steps |-> <<"mismatch">>]
                      ELSE Step("mismatch", FreshenFailingOnAbsent(iv.cache, iv.stale, res, Tail(keys), Clock))

\* lines 139-151; steps: the branch taken for each key the loop reached
RECURSIVE FreshenOf(_, _, _, _, _)
FreshenOf(c, st, res, keys, Clock) ==
    IF keys = <<>>
    THEN [cache |-> c, stale |-> st, err |-> Nil, panic |-> FALSE, steps |-> <<>>]
    ELSE LET key == Head(keys)
             hd  == HeaderOf(c, key)
         IN  IF hd.err # Nil
             THEN Step("absent", FreshenOf(hd.cache, st, res, Tail(keys), Clock))
             ELSE IF hd.h.StatusCode = res.statusCode /\ headersEqual(hd.h.Header, res.header)
             THEN LET u == updateHeader(hd.cache, key, res.header, hd.h.StatusCode)
                  IN  IF u.err # Nil
                      THEN [cache |-> u.cache, stale |-> st, err |-> u.err,
                            panic |-> FALSE, steps |-> <<"match">>]
                      ELSE Step("match", FreshenOf(u.cache, st, res, Tail(keys), Clock))
             ELSE LET iv == InvalidateOf(hd.cache, st, <<key>>, Clock)
                  IN  IF iv.panic
                      THEN [cache |-> iv.cache, stale |-> iv.stale, err |-> Nil,
                            panic |-> TRUE, steps |-> <<"mismatch">>]
                      ELSE Step("mismatch", FreshenOf(iv.cache, iv.stale, res, Tail(keys), Clock))

Freshen(res, keys, Clock) ==
    LET r == FreshenOf(cache, stale, res, keys, Clock)
        ev == Evicted(cache, r.cache, <<>>)
    IN  /\ last = None
        /\ cache' = r.cache
        /\ stale' = r.stale
        /\ gone' = gone \cup ev
        /\ last' = [op |-> "Freshen", res |-> res, keys |-> keys, err |-> r.err,
                    panic |-> r.panic, steps |-> r.steps, evicted |-> ev, reads |-> 0]
        /\ UNCHANGED callerVars

\* the caller takes the result of its call; the next call starts from there
Return ==
    /\ last # None
    /\ last' = None
    /\ UNCHANGED <<cache, stale, gone>>
    /\ UNCHANGED callerVars

Next ==
    \/ \E key \in Keys : Header(key)
    \/ \E res \in Resources, keys \in KeyLists : Store(res, keys)
    \/ \E key \in Keys : Retrieve(key)
    \/ \E keys \in KeyLists, t \in Times : Invalidate(keys, t)
    \/ \E res \in Candidates, keys \in KeyLists, t \in Times : Freshen(res, keys, t)
    \/ Return

Spec == Init /\ [][Next]_vars

\* ------------------------------------------------ the cache with an overlay
\* Section 4.1 of the specification constructs the cache with an empty Stale
\* Overlay, which NewLRUCache does not do.  SpecOverlay runs the methods of
\* lru.go on both receivers, the one NewLRUCache builds and the one with the
\* overlay allocated, so that the lines that read and write c.stale act on
\* an overlay that holds entries.
NewCache(capacityBytes) ==
    /\ cache = NewLargeWithEvict(capacityBytes)
    /\ stale = [alloc |-> TRUE, m |-> EmptyMap]

InitOverlay ==
    /\ \E sizeBytes \in 1..MaxCap : NewLRUCache(sizeBytes) \/ NewCache(sizeBytes)
    /\ gone = {}
    /\ last = None
    /\ NoCallers

\* The inputs of SpecOverlay: a Content-Length, when declared, overstates the
\* body (the read of lines 59-67 comes up short); candidates carry a Date only.
OverlayResources ==
    {r \in Resources : "Content-Length" \in DOMAIN r.header
                          => r.header["Content-Length"] > MaxBody}
OverlayCandidates == {r \in Candidates : "Content-Length" \notin DOMAIN r.header}

NextOverlay ==
    \/ \E key \in Keys : Header(key)
    \/ \E res \in OverlayResources, keys \in KeyLists : Store(res, keys)
    \/ \E key \in Keys : Retrieve(key)
    \/ \E keys \in KeyLists, t \in Times : Invalidate(keys, t)
    \/ \E res \in OverlayCandidates, keys \in KeyLists, t \in Times : Freshen(res, keys, t)
    \/ Return

SpecOverlay == InitOverlay /\ [][NextOverlay]_vars

\* ------------------------------------------------------ concurrent callers
\* lru.go takes no lock.  The eviction store serialises its own Get and
\* AddSize, so each of them is one step; each access of the map c.stale
\* (delete, lookup, assignment) is one step too, and nothing keeps two callers
\* from being in such accesses together.  A caller's record holds its
\* position (pc) and its locals.  The calls of one run fall within one
\* reading of the clock, the latest of Times.
Latest == CHOOSE t \in Times : \A u \in Times : u <= t

\* the resources of SpecConc, two versions of a response: the earliest Date
\* with the empty body and the latest Date with the longest body; status 200,
\* no Content-Length, the body read in full
ConcResources ==
    {r \in Resources : /\ ~r.broken
                       /\ "Content-Length" \notin DOMAIN r.header
                       /\ r.statusCode = 200
                       /\ \/ r.header["Date"] = Latest /\ Len(r.body) = MaxBody
                          \/ r.header["Date"] # Latest /\ r.body = <<>>}
ConcCandidates ==
    {r \in Candidates : "Content-Length" \notin DOMAIN r.header /\ r.statusCode = 200}
\* Store and Invalidate are called with one key, Freshen with one or two
OneKey == {<<k>> : k \in Keys}

Done(op, err, panic) == [pc |-> "done", op |-> op, err |-> err, panic |-> panic]

\* the access of c.stale a caller at this position is in
Access(rec) ==
    CASE rec.pc = "StoreDelete"                         -> "write"   \* line 81
      [] rec.pc \in {"InvalidateAssign", "FreshenInvalidate"} -> "write"   \* line 133
      [] rec.pc = "RetrieveLookup"                      -> "read"    \* line 104
      [] OTHER                                          -> "none"

\* history kept in a Freshen's record: alone = no other caller has taken a
\* step since the call began
InFreshen(rec) == rec.pc \in {"FreshenHeader", "UpdateGet", "UpdateAdd", "FreshenInvalidate"}
Disturbed(rec) == IF InFreshen(rec) THEN [rec EXCEPT !.alone = FALSE] ELSE rec
Move(p, rec) == proc' = [r \in Procs |-> IF r = p THEN rec ELSE Disturbed(proc[r])]

\* an insertion under k ends what an earlier Invalidate of k said of the entry
\* then resident, and so does its eviction
Unmark(k, c2) == (marked \ {k}) \cap LruKeys(c2)

\* lines 41-53: Header is a single Get
CHeader(p, key) ==
    LET r == HeaderOf(cache, key)
    IN  /\ proc[p] = Idle
        /\ cache' = r.cache
        /\ Move(p, Done("Header", r.err, FALSE))
        /\ UNCHANGED <<stale, gone, last, marked>>

\* lines 58-77: Store reads the body and builds val
CStore(p, res, keys) ==
    LET rd == StoreRead(res)
    IN  /\ proc[p] = Idle
        /\ Move(p, IF rd.ret THEN Done("Store", rd.err, rd.panic)
                   ELSE [pc |-> "StoreDelete", keys |-> keys,
                         val |-> CacheObj(rd.bytes, res.header, res.statusCode)])
        /\ UNCHANGED <<cache, stale, gone, last, marked>>

\* line 81
CStoreDelete(p) ==
    /\ proc[p].pc = "StoreDelete"
    /\ stale' = MapDelete(stale, Head(proc[p].keys))
    /\ Move(p, [proc[p] EXCEPT !.pc = "StoreAdd"])
    /\ UNCHANGED <<cache, gone, last, marked>>

\* line 82, and line 79 moving to the next key or line 85 returning
CStoreAdd(p) ==
    /\ proc[p].pc = "StoreAdd"
    /\ LET rec == proc[p]
           k   == Head(rec.keys)
       IN  /\ cache' = AddSize(cache, k, rec.val, Size(rec.val))
           /\ marked' = Unmark(k, cache')
           /\ Move(p, IF Tail(rec.keys) = <<>> THEN Done("Store", Nil, FALSE)
                      ELSE [rec EXCEPT !.pc = "StoreDelete", !.keys = Tail(@)])
    /\ UNCHANGED <<stale, gone, last>>

\* lines 92-103: the Get of Retrieve; owed = the entry it got is one an
\* Invalidate of the key has been completed for
CRetrieve(p, key) ==
    LET g == Get(cache, key)
    IN  /\ proc[p] = Idle
        /\ cache' = g.cache
        /\ Move(p, IF ~g.ok THEN Done("Retrieve", ErrNotFoundInCache, FALSE)
                   ELSE [pc |-> "RetrieveLookup", key |-> key, val |-> g.val,
                         owed |-> key \in marked])
        /\ UNCHANGED <<stale, gone, last, marked>>

\* lines 104-111
CRetrieveLookup(p) ==
    /\ proc[p].pc = "RetrieveLookup"
    /\ LET rec == proc[p]
           res == NewResourceBytes(rec.val.code, rec.val.body, rec.val.headers)
           ret == IF MapHas(stale, rec.key) /\ ~DateAfter(res, stale.m[rec.key])
                  THEN MarkStale(res) ELSE res
       IN  Move(p, [pc |-> "done", op |-> "Retrieve", err |-> Nil, panic |-> FALSE,
                    stale |-> ret.stale, owed |-> rec.owed])
    /\ UNCHANGED <<cache, stale, gone, last, marked>>

\* lines 130-131
CInvalidate(p, keys) ==
    /\ proc[p] = Idle
    /\ Move(p, [pc |-> "InvalidateAssign", keys |-> keys])
    /\ UNCHANGED <<cache, stale, gone, last, marked>>

\* the key of a completed Invalidate whose entry is resident and not newer
Mark(k, Clock, completes) ==
    IF completes /\ k \in LruKeys(cache) /\ LruValue(cache, k).headers["Date"] <= Clock
    THEN marked \cup {k} ELSE marked

\* line 133, and line 132 moving to the next key or returning
CInvalidateAssign(p, Clock) ==
    /\ proc[p].pc = "InvalidateAssign"
    /\ LET rec == proc[p]
           k   == Head(rec.keys)
       IN  IF MapAssignPanics(stale)
           THEN /\ Move(p, Done("Invalidate", Nil, TRUE))
                /\ UNCHANGED <<stale, marked>>
           ELSE /\ stale' = MapAssign(stale, k, Clock)
                /\ marked' = Mark(k, Clock, Tail(rec.keys) = <<>>)
                /\ Move(p, IF Tail(rec.keys) = <<>> THEN Done("Invalidate", Nil, FALSE)
                           ELSE [rec EXCEPT !.keys = Tail(@)])
    /\ UNCHANGED <<cache, gone, last>>

\* lines 137-138
CFreshen(p, res, keys) ==
    /\ proc[p] = Idle
    /\ Move(p, [pc |-> "FreshenHeader", res |-> res, keys |-> keys, alone |-> TRUE])
    /\ UNCHANGED <<cache, stale, gone, last, marked>>

\* line 139 after the key at the head is dealt with; left = the keys of the
\* list the loop has not reached
FreshenEnd(rec, err, panic) ==
    [pc |-> "done", op |-> "Freshen", err |-> err, panic |-> panic,
     left |-> Tail(rec.keys), alone |-> rec.alone]
FreshenNextKey(rec) ==
    IF Tail(rec.keys) = <<>> THEN FreshenEnd(rec, Nil, FALSE)
    ELSE [pc |-> "FreshenHeader", res |-> rec.res, keys |-> Tail(rec.keys),
          alone |-> rec.alone]

\* lines 140-141: the Header read and the comparison; old = the body of the
\* entry the read found
CFreshenHeader(p) ==
    /\ proc[p].pc = "FreshenHeader"
    /\ LET rec == proc[p]
           k   == Head(rec.keys)
           hd  == HeaderOf(cache, k)
       IN  /\ cache' = hd.cache
           /\ Move(p, IF hd.err # Nil THEN FreshenNextKey(rec)
                      ELSE IF /\ hd.h.StatusCode = rec.res.statusCode
                              /\ headersEqual(hd.h.Header, rec.res.header)
                      THEN [pc |-> "UpdateGet", res |-> rec.res, keys |-> rec.keys,
                            alone |-> rec.alone, code |-> hd.h.StatusCode,
                            old |-> LruValue(cache, k).body]
                      ELSE [pc |-> "FreshenInvalidate", res |-> rec.res,
                            keys |-> rec.keys, alone |-> rec.alone])
    /\ UNCHANGED <<stale, gone, last, marked>>

\* lines 116-119: the Get of updateHeader; its failure ends Freshen (line 144)
CUpdateGet(p) ==
    /\ proc[p].pc = "UpdateGet"
    /\ LET rec == proc[p]
           g   == Get(cache, Head(rec.keys))
       IN  /\ cache' = g.cache
           /\ Move(p, IF ~g.ok THEN FreshenEnd(rec, ErrNotFoundInCache, FALSE)
                      ELSE [pc |-> "UpdateAdd", res |-> rec.res, keys |-> rec.keys,
                            alone |-> rec.alone, code |-> rec.code, old |-> rec.old,
                            val |-> g.val])
    /\ UNCHANGED <<stale, gone, last, marked>>

\* lines 124-126
CUpdateAdd(p) ==
    /\ proc[p].pc = "UpdateAdd"
    /\ LET rec == proc[p]
           k   == Head(rec.keys)
           val == [rec.val EXCEPT !.headers = rec.res.header, !.code = rec.code]
       IN  /\ cache' = AddSize(cache, k, val, Size(val))
           /\ marked' = Unmark(k, cache')
           /\ Move(p, FreshenNextKey(rec))
    /\ UNCHANGED <<stale, gone, last>>

\* line 148: c.Invalidate(key), an Invalidate of one key
CFreshenInvalidate(p, Clock) ==
    /\ proc[p].pc = "FreshenInvalidate"
    /\ LET rec == proc[p]
           k   == Head(rec.keys)
       IN  IF MapAssignPanics(stale)
           THEN /\ Move(p, FreshenEnd(rec, Nil, TRUE))
                /\ UNCHANGED <<stale, marked>>
           ELSE /\ stale' = MapAssign(stale, k, Clock)
                /\ marked' = Mark(k, Clock, TRUE)
                /\ Move(p, FreshenNextKey(rec))
    /\ UNCHANGED <<cache, gone, last>>

\* the caller takes the result of its call
CReturn(p) ==
    /\ proc[p].pc = "done"
    /\ proc' = [proc EXCEPT ![p] = Idle]
    /\ UNCHANGED <<cache, stale, gone, last, marked>>

\* Two callers in accesses of an allocated map, one of them writing: the Go
\* runtime may detect it and throw ("concurrent map read and map write"),
\* which ends the process and every caller with it; when it does not, the
\* accesses take effect one after the other as the steps above.
Thrown == [pc |-> "thrown"]
CThrow(p) ==
    /\ stale.alloc
    /\ \E q \in Procs \ {p} :
          /\ Access(proc[p]) # "none"
          /\ Access(proc[q]) # "none"
          /\ "write" \in {Access(proc[p]), Access(proc[q])}
    /\ proc' = [r \in Procs |-> Thrown]
    /\ UNCHANGED <<cache, stale, gone, last, marked>>

InitConc ==
    /\ \E sizeBytes \in 1..MaxCap : NewLRUCache(sizeBytes) \/ NewCache(sizeBytes)
    /\ gone = {}
    /\ last = None
    /\ NoCallers

NextConc ==
    \/ \E p \in Procs, key \in Keys : CHeader(p, key)
    \/ \E p \in Procs, res \in ConcResources, keys \in OneKey : CStore(p, res, keys)
    \/ \E p \in Procs : CStoreDelete(p)
    \/ \E p \in Procs : CStoreAdd(p)
    \/ \E p \in Procs, key \in Keys : CRetrieve(p, key)
    \/ \E p \in Procs : CRetrieveLookup(p)
    \/ \E p \in Procs, keys \in OneKey : CInvalidate(p, keys)
    \/ \E p \in Procs : CInvalidateAssign(p, Latest)
    \/ \E p \in Procs, res \in ConcCandidates, keys \in KeyLists : CFreshen(p, res, keys)
    \/ \E p \in Procs : CFreshenHeader(p)
    \/ \E p \in Procs : CUpdateGet(p)
    \/ \E p \in Procs : CUpdateAdd(p)
    \/ \E p \in Procs : CFreshenInvalidate(p, Latest)
    \/ \E p \in Procs : CReturn(p)
    \/ \E p \in Procs : CThrow(p)

SpecConc == InitConc /\ [][NextConc]_vars

TypeOK ==
    /\ cache.size \in 1..MaxCap
    /\ LruKeys(cache) \subseteq Keys
    /\ Len(cache.ll) = Cardinality(LruKeys(cache))
    /\ gone \subseteq Keys
    /\ marked \subseteq Keys
    /\ DOMAIN proc = Procs

\* =================================================================== claims
\* What Store is to keep of a resource: the bytes its reader delivers, cut to
\* the declared Content-Length when one is declared.
DeclaredBody(res) ==
    LET g == HeaderGet(res.header, "Content-Length")
    IN  IF g.present /\ g.v < Len(res.body) THEN SubSeq(res.body, 1, g.v) ELSE res.body

\* total resident size: the body lengths of the entries, each key counted
ResidentSize(c) == LET Sum[i \in 0..Len(c.ll)] ==
                           IF i = 0 THEN 0 ELSE Len(c.ll[i].value.body) + Sum[i - 1]
                   IN  Sum[Len(c.ll)]

\* the number of bytes the reader of a resource can deliver
Delivered(res) == IF res.broken THEN 0 ELSE Len(res.body)

\* the candidate's status and header set equal those cached under k
CandidateMatches(c, k, res) ==
    /\ k \in LruKeys(c)
    /\ LruValue(c, k).code = res.statusCode
    /\ headersEqual(LruValue(c, k).headers, res.header)

StoreReturnedNil == last.op = "Store" /\ last.err = Nil /\ ~last.panic

\* C1: after a Store that returned nil, Retrieve of each of its keys that was
\* not evicted returns the stored status, headers and body, not stale.
StoreRetrieveRoundTrip ==
    StoreReturnedNil =>
        \A k \in Range(last.keys) \ last.evicted :
            LET r == RetrieveOf(cache, stale, k)
            IN  /\ r.err = Nil
                /\ r.res.statusCode = last.res.statusCode
                /\ r.res.header = last.res.header
                /\ r.res.body = DeclaredBody(last.res)
                /\ ~r.res.stale

\* C2: the bodies resident in the store never sum to more than the capacity,
\* and Retrieve of a key evicted and not stored since is ErrNotFoundInCache.
CapacityInvariant ==
    /\ ResidentSize(cache) <= cache.size
    /\ \A k \in gone : RetrieveOf(cache, stale, k).err = ErrNotFoundInCache
    /\ (last.op = "Retrieve" /\ last.key \in gone) => last.err = ErrNotFoundInCache

CapacityWitness ==
    /\ last.op = "Retrieve"
    /\ last.key \in gone
    /\ ResidentSize(cache) = cache.size
    /\ LruKeys(cache) # {}

\* C3: Invalidate completes without panic and leaves each listed key in the
\* overlay, mapped to the clock reading of the call.
InvalidateNeverFails ==
    last.op = "Invalidate" =>
        /\ ~last.panic
        /\ \A k \in Range(last.keys) : MapHas(stale, k) /\ stale.m[k] = last.at

\* C4: after Invalidate(k) at time T, Retrieve of an entry under k dated T or
\* earlier is stale; after a Store of k, Retrieve of k is not stale.
InvalidateThenRetrieve ==
    /\ last.op = "Invalidate" =>
          \A k \in Range(last.keys) \cap LruKeys(cache) :
              LruValue(cache, k).headers["Date"] <= last.at
                  => RetrieveOf(cache, stale, k).res.stale
    /\ StoreReturnedNil =>
          \A k \in Range(last.keys) \cap LruKeys(cache) :
              ~RetrieveOf(cache, stale, k).res.stale

\* C5: after a Store that returned nil, Retrieve succeeds for every key of
\* the list and returns the same status, headers and body for all of them.
MultiKeyStore ==
    StoreReturnedNil =>
        \A k \in Range(last.keys) :
            LET r == RetrieveOf(cache, stale, k)
            IN  /\ r.err = Nil
                /\ r.res.statusCode = last.res.statusCode
                /\ r.res.header = last.res.header
                /\ r.res.body = DeclaredBody(last.res)

\* C6: Invalidate leaves the store (entries, recency order, sizes) as it was,
\* and for every key it does not list the overlay entry and the stale flag
\* Retrieve reports are as before.
InvalidateTouchesOnlyItsKeys ==
    [][last'.op = "Invalidate" =>
          /\ cache' = cache
          /\ gone' = gone
          /\ \A b \in Keys \ Range(last'.keys) :
                /\ MapHas(stale', b) = MapHas(stale, b)
                /\ MapHas(stale, b) => stale'.m[b] = stale.m[b]
                /\ b \in LruKeys(cache) =>
                      RetrieveOf(cache', stale', b).res.stale
                          = RetrieveOf(cache, stale, b).res.stale]_vars

\* two keys hold the entry of one Store call and one of them was invalidated
InvalidateWitness ==
    /\ last.op = "Invalidate"
    /\ Len(last.keys) = 1
    /\ LruKeys(cache) = Keys
    /\ \A k \in Keys : LruValue(cache, k) = cache.ll[1].value
    /\ cache.ll[1].key \notin Range(last.keys)

\* C7: a Store of a resource that declares more bytes than its body delivers
\* returns an error.
ContentLengthMismatchFails ==
    (/\ last.op = "Store"
     /\ HeaderGet(last.res.header, "Content-Length").present
     /\ HeaderGet(last.res.header, "Content-Length").v > Delivered(last.res))
        => (~last.panic /\ last.err # Nil)

\* C8: a Freshen whose candidate matches every listed key returns nil without
\* reading the candidate's body; each listed entry has the candidate's
\* headers and status over the body it had, the other entries, the set of
\* resident keys and the resident size are as before.
FreshenMatch ==
    [][(/\ last'.op = "Freshen"
        /\ \A k \in Range(last'.keys) : CandidateMatches(cache, k, last'.res))
          => /\ ~last'.panic
             /\ last'.err = Nil
             /\ last'.reads = 0
             /\ LruKeys(cache') = LruKeys(cache)
             /\ ResidentSize(cache') = ResidentSize(cache)
             /\ \A k \in LruKeys(cache) :
                   LruValue(cache', k) =
                       IF k \in Range(last'.keys)
                       THEN CacheObj(LruValue(cache, k).body, last'.res.header,
                                     last'.res.statusCode)
                       ELSE LruValue(cache, k)]_vars

FreshenMatchWitness ==
    /\ last.op = "Freshen"
    /\ last.steps = <<"match">>
    /\ last.err = Nil
    /\ LruValue(cache, last.keys[1]).body # <<>>
    /\ Cardinality(LruKeys(cache)) = 2

\* C9: a Freshen of a present key whose candidate differs returns nil, leaves
\* the entry as it was, and the next Retrieve returns its body, stale.
FreshenMismatch ==
    [][\A k \in Keys :
          (/\ last'.op = "Freshen"
           /\ last'.keys = <<k>>
           /\ k \in LruKeys(cache)
           /\ ~CandidateMatches(cache, k, last'.res))
             => /\ ~last'.panic
                /\ last'.err = Nil
                /\ k \in LruKeys(cache')
                /\ LruValue(cache', k) = LruValue(cache, k)
                /\ RetrieveOf(cache', stale', k).err = Nil
                /\ RetrieveOf(cache', stale', k).res.body = LruValue(cache, k).body
                /\ RetrieveOf(cache', stale', k).res.stale]_vars

\* C10: a Freshen that lists only absent keys returns nil and changes neither
\* the store nor the overlay, and an absent key does not keep the loop from
\* the keys listed after it.
MissingKeyFreshenNoOp ==
    [][last'.op = "Freshen" =>
          /\ Range(last'.keys) \cap LruKeys(cache) = {} =>
                /\ ~last'.panic
                /\ last'.err = Nil
                /\ cache' = cache
                /\ stale' = stale
                /\ gone' = gone
                /\ last'.steps = [i \in 1..Len(last'.keys) |-> "absent"]
          /\ (Len(last'.keys) = 2 /\ last'.keys[1] \notin LruKeys(cache)
                                 /\ last'.keys[2] \in LruKeys(cache)) =>
                /\ Len(last'.steps) = 2
                /\ last'.steps[1] = "absent"
                /\ last'.steps[2] = IF CandidateMatches(cache, last'.keys[2], last'.res)
                                    THEN "match" ELSE "mismatch"]_vars

\* an evicted key listed before a key that is then freshened
MissingKeyWitness ==
    /\ last.op = "Freshen"
    /\ last.steps = <<"absent", "match">>
    /\ last.keys[1] \in gone

\* C11: no two callers are in accesses of the overlay map together when one
\* of the accesses writes (Store's delete, Invalidate's assignment) and the
\* other reads or writes (Retrieve's lookup included).
OverlayAccessExcluded ==
    \A p \in Procs : \A q \in Procs \ {p} :
        ~(Access(proc[p]) = "write" /\ Access(proc[q]) # "none")

ResidentWithout(c, ks) ==
    LET Sum[i \in 0..Len(c.ll)] ==
            IF i = 0 THEN 0
            ELSE (IF c.ll[i].key \in ks THEN 0 ELSE Len(c.ll[i].value.body)) + Sum[i - 1]
    IN  Sum[Len(c.ll)]

FreshenStoreLastWriteWins ==
    [][\A p \in Procs :
          (/\ proc[p].pc = "UpdateAdd"
           /\ proc'[p].pc \in {"FreshenHeader", "done"}
           /\ Head(proc[p].keys) \in LruKeys(cache)
           /\ Head(proc[p].keys) \in LruKeys(cache'))
             => LET rec == proc[p]
                    k   == Head(rec.keys)
                IN  /\ \/ LruValue(cache', k) = CacheObj(rec.old, rec.res.header, rec.code)
                       \/ LruValue(cache', k) = LruValue(cache, k)
                    /\ LruValue(cache', k).body = LruValue(cache, k).body]_vars

FreshenFailsOnlyInUpdateHeader ==
    [][\A p \in Procs :
          (/\ proc[p].pc # "done"
           /\ proc'[p].pc = "done"
           /\ proc'[p].op = "Freshen")
             => /\ proc'[p].alone => (proc'[p].err = Nil /\ ~proc'[p].panic)
                /\ proc'[p].err # Nil =>
                      /\ proc[p].pc = "UpdateGet"
                      /\ Head(proc[p].keys) \notin LruKeys(cache)
                      /\ proc'[p].err = ErrNotFoundInCache
                      /\ proc'[p].left = Tail(proc[p].keys)
                      /\ LruKeys(cache') = LruKeys(cache)
                      /\ stale' = stale]_vars

\* C20: a Store that returns an error has changed neither store nor overlay;
\* a Store that returns nil has inserted, under every key of its list that
\* the insertions of the call did not evict again, the entry with the body
\* read in full.
StoreAllOrNothing ==
    [][last'.op = "Store" =>
          /\ last'.err # Nil => (cache' = cache /\ stale' = stale)
          /\ (last'.err = Nil /\ ~last'.panic) =>
                \A k \in Range(last'.keys) \ last'.evicted :
                    /\ k \in LruKeys(cache')
                    /\ LruValue(cache', k) = CacheObj(DeclaredBody(last'.res),
                                                     last'.res.header,
                                                     last'.res.statusCode)]_vars
====
